---------------------------- MODULE Spec2Model ----------------------------
(***************************************************************************)
(* Model of backend/utils/mini4wd_validator.py: Mini4WDValidator, the part *)
(* classification and validation engine of mini4wd-converter.              *)
(*                                                                         *)
(* Lengths are integers in thousandths of a millimetre (mm(165) is 165mm), *)
(* volumes in thousandths of a cubic millimetre, so that every float       *)
(* literal of the source (1.5, 0.2, 2.05, ...) is exact and round(x, 2)    *)
(* and the :.1f / :.2f formats are real roundings.                         *)
(*                                                                         *)
(* A Python dict is a function whose DOMAIN is its set of keys; a Python   *)
(* list or tuple is a sequence; a message built by an f-string is the      *)
(* record of its template and its formatted arguments.                     *)
(***************************************************************************)
EXTENDS Integers, Sequences, FiniteSets, TLC

VARIABLES
    trimesh,               \* module global: is the trimesh import available
    instance,              \* how many Mini4WDValidator objects were constructed
    validation_rules,      \* self.validation_rules of the validator in use
    file_path,             \* the file handed to the last validate_part call
    tamiya_plate_settings, \* the plate settings handed to that call
    report,                \* what that call returned
    previous,              \* what the call before it on the same inputs returned
    ncalls,                \* calls made so far on these inputs
    threads,               \* per server thread: the frame of its validate_part call
    shared                 \* do the threads call one validator, or each its own

\* the state of the concurrent calls
conc == <<threads, shared>>

vars == <<trimesh, instance, validation_rules, file_path,
          tamiya_plate_settings, report, previous, ncalls, conc>>

-----------------------------------------------------------------------------
(* Bounds of the model *)

MaxInstances == 2
MaxCalls == 2
NThreads == 2

-----------------------------------------------------------------------------
(* Python helpers *)

mm(x) == x * 1000

Min2(a, b) == IF a < b THEN a ELSE b
Max2(a, b) == IF a > b THEN a ELSE b
Min3(a, b, c) == Min2(a, Min2(b, c))
Abs(x) == IF x < 0 THEN -x ELSE x

\* round to the nearest multiple of q, ties to the even multiple
RoundTo(x, q) ==
    LET a == Abs(x)
        lo == a \div q
        r == a % q
        n == IF 2 * r < q THEN lo
             ELSE IF 2 * r > q THEN lo + 1
             ELSE IF lo % 2 = 0 THEN lo ELSE lo + 1
    IN  IF x < 0 THEN -(n * q) ELSE n * q

Round2(x) == RoundTo(x, 10)
Fmt1(x) == RoundTo(x, 100)
Fmt2(x) == RoundTo(x, 10)

\* d.get(k, default)
DictGet(d, k, default) == IF k \in DOMAIN d THEN d[k] ELSE default

\* d.update(u): the keys of u take u's values
DictUpdate(d, u) == u @@ d

EmptyDict == [k \in {} |-> 0]

Msg(text, args) == [text |-> text, args |-> args]

Append2(s, a, b) == Append(Append(s, a), b)

-----------------------------------------------------------------------------
(* Class constants and the rule table built by __init__ *)

CHASSIS_MAX_WIDTH == mm(105)
CHASSIS_MAX_LENGTH == mm(165)
CHASSIS_MAX_HEIGHT == mm(40)
WHEEL_DIAMETER_SMALL == mm(24)
WHEEL_DIAMETER_LARGE == mm(30)
AXLE_DIAMETER == mm(2)

InitRules ==
    [chassis |->
        [max_dimensions |-> <<CHASSIS_MAX_LENGTH, CHASSIS_MAX_WIDTH, CHASSIS_MAX_HEIGHT>>,
         min_thickness |-> 1500,
         required_holes |-> <<"axle_front", "axle_rear">>],
     wheel |->
        [allowed_diameters |-> <<WHEEL_DIAMETER_SMALL, WHEEL_DIAMETER_LARGE>>,
         min_thickness |-> mm(2),
         max_thickness |-> mm(15),
         axle_hole_diameter |-> AXLE_DIAMETER],
     body |->
        [max_dimensions |-> <<CHASSIS_MAX_LENGTH, CHASSIS_MAX_WIDTH, mm(50)>>,
         min_thickness |-> 800]]


-----------------------------------------------------------------------------
(* Exceptions: a callee that raises yields Raise(text) instead of a result *)

Raise(text) == [raised |-> text]
Raised(r) == "raised" \in DOMAIN r

\* hasattr(mesh, name)
hasattr(mesh, name) == name \in mesh.attrs

NoAttribute(name) ==
    CASE name = "bounds" -> "Validation failed: object has no attribute 'bounds'"
      [] name = "is_watertight" -> "Validation failed: object has no attribute 'is_watertight'"
      [] OTHER -> "Validation failed: object has no attribute"

-----------------------------------------------------------------------------
(* _classify_part *)

\* the height > 30 rule tried first
_classify_part_HeightFirst(dimensions) ==
    LET length == dimensions[1]
        width == dimensions[2]
        height == dimensions[3]
    IN  IF height > mm(30) THEN "body"
        ELSE IF length > mm(100) /\ width > mm(80) THEN "chassis"
        ELSE IF Min2(length, width) < mm(35) /\ Max2(length, width) < mm(35) THEN "wheel"
        ELSE IF height < mm(20) /\ (length > mm(50) \/ width > mm(50)) THEN "body"
        ELSE "accessory"

_classify_part(dimensions) ==
    LET length == dimensions[1]
        width == dimensions[2]
        height == dimensions[3]
    IN  IF length > mm(100) /\ width > mm(80) THEN "chassis"
        ELSE IF Min2(length, width) < mm(35) /\ Max2(length, width) < mm(35) THEN "wheel"
        ELSE IF height < mm(20) /\ (length > mm(50) \/ width > mm(50)) THEN "body"
        ELSE IF height > mm(30) THEN "body"
        ELSE "accessory"

-----------------------------------------------------------------------------
(* _validate_chassis *)

\* a chassis of exactly 140mm taken for too short
ChassisTooShort_Inclusive(length) == length <= mm(140)

\* if length < 140
ChassisTooShort(length) == length < mm(140)

_validate_chassis(mesh, dimensions, rules) ==
    LET length == dimensions[1]
        width == dimensions[2]
        height == dimensions[3]
        max_dims == DictGet(rules, "max_dimensions", <<mm(165), mm(105), mm(40)>>)
        e1 == IF length > max_dims[1]
              THEN <<Msg("Length {:.1f}mm exceeds maximum {}mm", <<Fmt1(length), max_dims[1]>>)>>
              ELSE <<>>
        e2 == IF width > max_dims[2]
              THEN Append(e1, Msg("Width {:.1f}mm exceeds maximum {}mm", <<Fmt1(width), max_dims[2]>>))
              ELSE e1
        e3 == IF height > max_dims[3]
              THEN Append(e2, Msg("Height {:.1f}mm exceeds maximum {}mm", <<Fmt1(height), max_dims[3]>>))
              ELSE e2
        w1 == IF ChassisTooShort(length)
              THEN <<Msg("Chassis length might be too short for standard Mini 4WD", <<>>)>>
              ELSE <<>>
        w2 == IF width < mm(90)
              THEN Append(w1, Msg("Chassis width might be too narrow", <<>>))
              ELSE w1
    IN  IF ~hasattr(mesh, "is_watertight") THEN Raise(NoAttribute("is_watertight"))
        ELSE
        LET w3 == IF ~mesh.is_watertight
                  THEN Append(w2, Msg("Chassis is not watertight - may cause 3D printing issues", <<>>))
                  ELSE w2
            s1 == IF ~mesh.is_watertight
                  THEN <<Msg("Fix mesh holes and ensure watertight geometry", <<>>)>>
                  ELSE <<>>
        IN  [errors |-> e3,
             warnings |-> w3,
             suggestions |-> Append2(s1,
                 Msg("Ensure axle holes are properly positioned", <<>>),
                 Msg("Add mounting points for body and accessories", <<>>))]

-----------------------------------------------------------------------------
(* _validate_wheel *)

\* a diameter exactly 2mm off taken for standard
DiameterOk_Inclusive(diameter, allowed_diameters) ==
    \E i \in DOMAIN allowed_diameters : Abs(diameter - allowed_diameters[i]) <= mm(2)

\* the loop over allowed_diameters: abs(diameter - allowed_d) < 2
DiameterOk(diameter, allowed_diameters) ==
    \E i \in DOMAIN allowed_diameters : Abs(diameter - allowed_diameters[i]) < mm(2)

\* thickness taken in the wheel's plane only
WheelThickness_Planar(dimensions) == Min2(dimensions[1], dimensions[2])

\* thickness = min(length, width, height)
WheelThickness(dimensions) == Min3(dimensions[1], dimensions[2], dimensions[3])

_validate_wheel(mesh, dimensions, rules) ==
    LET length == dimensions[1]
        width == dimensions[2]
        height == dimensions[3]
        diameter == Max2(length, width)
        thickness == WheelThickness(dimensions)
        allowed_diameters == DictGet(rules, "allowed_diameters", <<mm(24), mm(30)>>)
        min_thickness == DictGet(rules, "min_thickness", mm(2))
        max_thickness == DictGet(rules, "max_thickness", mm(15))
        diameter_ok == DiameterOk(diameter, allowed_diameters)
        w1 == IF ~diameter_ok
              THEN <<Msg("Wheel diameter {:.1f}mm is not standard Mini 4WD size", <<Fmt1(diameter)>>)>>
              ELSE <<>>
        s1 == IF ~diameter_ok
              THEN <<Msg("Consider using standard diameters: {}mm", allowed_diameters)>>
              ELSE <<>>
        e1 == IF thickness < min_thickness
              THEN <<Msg("Wheel thickness {:.1f}mm is too thin (minimum {}mm)", <<Fmt1(thickness), min_thickness>>)>>
              ELSE <<>>
        w2 == IF thickness > max_thickness
              THEN Append(w1, Msg("Wheel thickness {:.1f}mm might be too thick", <<Fmt1(thickness)>>))
              ELSE w1
    IN  IF ~hasattr(mesh, "is_watertight") THEN Raise(NoAttribute("is_watertight"))
        ELSE
        [errors |-> e1,
         warnings |-> IF mesh.is_watertight
                      THEN Append(w2, Msg("Wheel appears solid - ensure axle hole is present", <<>>))
                      ELSE w2,
         suggestions |-> IF mesh.is_watertight
                         THEN Append(s1, Msg("Create 2mm diameter hole for axle", <<>>))
                         ELSE s1]

-----------------------------------------------------------------------------
(* _validate_body *)

\* the body held to the chassis height limit
_validate_body_ChassisHeight(mesh, dimensions, rules) ==
    LET length == dimensions[1]
        width == dimensions[2]
        height == dimensions[3]
        max_dims == <<CHASSIS_MAX_LENGTH, CHASSIS_MAX_WIDTH, CHASSIS_MAX_HEIGHT>>
        w1 == IF length > max_dims[1]
              THEN <<Msg("Body length {:.1f}mm might be too long", <<Fmt1(length)>>)>>
              ELSE <<>>
        w2 == IF width > max_dims[2]
              THEN Append(w1, Msg("Body width {:.1f}mm might be too wide", <<Fmt1(width)>>))
              ELSE w1
        w3 == IF height > max_dims[3]
              THEN Append(w2, Msg("Body height {:.1f}mm might be too tall", <<Fmt1(height)>>))
              ELSE w2
    IN  [errors |-> <<>>,
         warnings |-> w3,
         suggestions |-> <<Msg("Ensure minimum 0.8mm wall thickness for 3D printing", <<>>),
                           Msg("Add mounting holes for chassis attachment", <<>>)>>]

_validate_body(mesh, dimensions, rules) ==
    LET length == dimensions[1]
        width == dimensions[2]
        height == dimensions[3]
        max_dims == DictGet(rules, "max_dimensions", <<mm(165), mm(105), mm(50)>>)
        w1 == IF length > max_dims[1]
              THEN <<Msg("Body length {:.1f}mm might be too long", <<Fmt1(length)>>)>>
              ELSE <<>>
        w2 == IF width > max_dims[2]
              THEN Append(w1, Msg("Body width {:.1f}mm might be too wide", <<Fmt1(width)>>))
              ELSE w1
        w3 == IF height > max_dims[3]
              THEN Append(w2, Msg("Body height {:.1f}mm might be too tall", <<Fmt1(height)>>))
              ELSE w2
    IN  [errors |-> <<>>,
         warnings |-> w3,
         suggestions |-> <<Msg("Ensure minimum 0.8mm wall thickness for 3D printing", <<>>),
                           Msg("Add mounting holes for chassis attachment", <<>>)>>]

-----------------------------------------------------------------------------
(* _validate_by_type *)

_validate_by_type(validation_rules_, mesh, dimensions, part_type) ==
    LET validation == [valid |-> TRUE,
                       errors |-> <<>>,
                       warnings |-> <<>>,
                       suggestions |-> <<>>,
                       part_type |-> part_type]
        rules == DictGet(validation_rules_, part_type, EmptyDict)
        result == CASE part_type = "chassis" -> _validate_chassis(mesh, dimensions, rules)
                    [] part_type = "wheel" -> _validate_wheel(mesh, dimensions, rules)
                    [] part_type = "body" -> _validate_body(mesh, dimensions, rules)
                    [] OTHER -> EmptyDict
    IN  IF part_type \in {"chassis", "wheel", "body"}
        THEN IF Raised(result) THEN result ELSE DictUpdate(validation, result)
        ELSE [validation EXCEPT !.warnings =
                 Append(@, Msg("Part type \"{}\" - basic validation only", <<>>))]

-----------------------------------------------------------------------------
(* _check_mesh_quality *)

\* a mesh of exactly 10 faces taken for too simple
_check_mesh_quality_LowInclusive(mesh) ==
    LET face_count == IF hasattr(mesh, "faces") THEN mesh.faces ELSE 0
        is_watertight == IF hasattr(mesh, "is_watertight") THEN mesh.is_watertight ELSE FALSE
        i1 == IF face_count > 100000
              THEN <<Msg("Very high polygon count - consider simplifying mesh", <<>>)>>
              ELSE IF face_count <= 10
              THEN <<Msg("Very low polygon count - mesh might be too simple", <<>>)>>
              ELSE <<>>
        i2 == IF ~is_watertight
              THEN Append(i1, Msg("Mesh has holes or non-manifold geometry", <<>>))
              ELSE i1
    IN  [vertex_count |-> mesh.vertices,
         face_count |-> face_count,
         is_watertight |-> is_watertight,
         issues |-> i2]

_check_mesh_quality(mesh) ==
    LET face_count == IF hasattr(mesh, "faces") THEN mesh.faces ELSE 0
        is_watertight == IF hasattr(mesh, "is_watertight") THEN mesh.is_watertight ELSE FALSE
        i1 == IF face_count > 100000
              THEN <<Msg("Very high polygon count - consider simplifying mesh", <<>>)>>
              ELSE IF face_count < 10
              THEN <<Msg("Very low polygon count - mesh might be too simple", <<>>)>>
              ELSE <<>>
        i2 == IF ~is_watertight
              THEN Append(i1, Msg("Mesh has holes or non-manifold geometry", <<>>))
              ELSE i1
    IN  [vertex_count |-> mesh.vertices,
         face_count |-> face_count,
         is_watertight |-> is_watertight,
         issues |-> i2]

-----------------------------------------------------------------------------
(* _validate_tamiya_plate *)

thickness_tolerance == 200
min_plate_size == mm(10)
max_plate_size == mm(160)

_validate_tamiya_plate(mesh, dimensions, plate_settings) ==
    LET length == dimensions[1]
        width == dimensions[2]
        height == dimensions[3]
        expected_thickness == DictGet(plate_settings, "thickness", 1500)
        screw_hole_diameter == DictGet(plate_settings, "screw_hole_diameter", 2050)
        off == Abs(height - expected_thickness) > thickness_tolerance
        w1 == IF off
              THEN <<Msg("Plate thickness {:.2f}mm differs from expected {}mm (tolerance: +-{}mm)",
                         <<Fmt2(height), expected_thickness, thickness_tolerance>>)>>
              ELSE <<>>
        s1 == IF off
              THEN <<Msg("Consider adjusting thickness to {}mm for Tamiya compatibility",
                         <<expected_thickness>>)>>
              ELSE <<>>
        w2 == IF length < min_plate_size \/ width < min_plate_size
              THEN Append(w1, Msg("Plate dimensions ({:.1f}x{:.1f}mm) might be too small",
                                  <<Fmt1(length), Fmt1(width)>>))
              ELSE w1
        w3 == IF length > max_plate_size \/ width > max_plate_size
              THEN Append(w2, Msg("Plate dimensions ({:.1f}x{:.1f}mm) might be too large for Mini 4WD",
                                  <<Fmt1(length), Fmt1(width)>>))
              ELSE w2
    IN  IF ~hasattr(mesh, "is_watertight") THEN Raise(NoAttribute("is_watertight"))
        ELSE
        LET leak == ~mesh.is_watertight
            s2 == IF leak
                  THEN Append(s1, Msg("Fix mesh holes and ensure watertight geometry", <<>>))
                  ELSE s1
            s3 == s2 \o <<Msg("Recommended for FRP/Carbon plates: {}mm thickness", <<expected_thickness>>),
                          Msg("Screw holes should be {}mm diameter", <<screw_hole_diameter>>),
                          Msg("Ensure proper fiber direction for FRP plates", <<>>),
                          Msg("Consider layer adhesion for 3D printed prototypes", <<>>)>>
            s4 == IF expected_thickness = 1500
                  THEN Append(s3, Msg("1.5mm thickness suitable for lightweight FRP plates", <<>>))
                  ELSE IF expected_thickness = 3000
                  THEN Append(s3, Msg("3.0mm thickness suitable for structural Carbon plates", <<>>))
                  ELSE s3
        IN  [valid |-> ~leak,
             errors |-> IF leak
                        THEN <<Msg("Plate mesh is not watertight - will cause 3D printing issues", <<>>)>>
                        ELSE <<>>,
             warnings |-> w3,
             suggestions |-> s4,
             part_type |-> "tamiya_frp_carbon_plate"]

-----------------------------------------------------------------------------
(* validate_part *)

\* the report of the branch taken when the trimesh import failed
UnavailableReport ==
    [valid |-> FALSE,
     errors |-> <<Msg("trimesh library not available for 3D validation", <<>>)>>,
     warnings |-> <<>>,
     suggestions |-> <<>>]

\* the report of the branch taken on a mesh without vertices
EmptyReport ==
    [valid |-> FALSE,
     errors |-> <<Msg("Invalid or empty 3D model", <<>>)>>,
     warnings |-> <<>>,
     suggestions |-> <<>>]

\* the report built by the except clause; e is the text f'Validation failed: {str(e)}'
\* no except clause: the exception leaves validate_part
ExceptionReport_Propagate(e) == Raise(e)

ExceptionReport(e) ==
    [valid |-> FALSE,
     errors |-> <<Msg(e, <<>>)>>,
     warnings |-> <<>>,
     suggestions |-> <<Msg("Check if the file is a valid 3D model", <<>>)>>]

\* the vertex count left unchecked
IsEmptyMesh_AttrOnly(mesh) == ~hasattr(mesh, "vertices")

\* not hasattr(mesh, 'vertices') or len(mesh.vertices) == 0
IsEmptyMesh(mesh) == ~hasattr(mesh, "vertices") \/ mesh.vertices = 0

\* Python truth value of the tamiya_plate_settings argument: None and {} are false
Truthy(settings) == settings.given /\ DOMAIN settings.dict # {}

\* bounds[1] - bounds[0]
Dimensions(bounds) == [i \in 1..3 |-> bounds[2][i] - bounds[1][i]]

validate_part(trimesh_, validation_rules_, file, settings) ==
    IF ~trimesh_ THEN UnavailableReport
    ELSE IF ~file.loads THEN ExceptionReport("Validation failed: could not load mesh")
    ELSE
    LET mesh == file.mesh IN
    IF IsEmptyMesh(mesh) THEN EmptyReport
    ELSE IF ~hasattr(mesh, "bounds") THEN ExceptionReport(NoAttribute("bounds"))
    ELSE IF mesh.bounds = <<>> THEN ExceptionReport("Validation failed: 'NoneType' object is not subscriptable")
    ELSE
    LET dimensions == Dimensions(mesh.bounds)
        volume == IF hasattr(mesh, "volume") THEN mesh.volume ELSE 0
        is_watertight == IF hasattr(mesh, "is_watertight") THEN mesh.is_watertight ELSE FALSE
        validation_result ==
            IF Truthy(settings)
            THEN _validate_tamiya_plate(mesh, dimensions, settings.dict)
            ELSE _validate_by_type(validation_rules_, mesh, dimensions, _classify_part(dimensions))
    IN  IF Raised(validation_result) THEN ExceptionReport(validation_result.raised)
        ELSE
        LET basic == [mesh_quality |-> _check_mesh_quality(mesh),
                      dimensions |-> [length |-> Round2(dimensions[1]),
                                      width |-> Round2(dimensions[2]),
                                      height |-> Round2(dimensions[3])],
                      volume |-> IF volume > 0 THEN Round2(volume) ELSE 0,
                      is_watertight |-> is_watertight]
            plate == IF Truthy(settings)
                     THEN [tamiya_plate_mode |-> TRUE, plate_settings |-> settings.dict]
                     ELSE EmptyDict
        IN  plate @@ basic @@ validation_result

-----------------------------------------------------------------------------
(* The effect of a call on self.validation_rules *)

\* self.validation_rules.setdefault(part_type, {}) in place of get
RulesAfterGet_SetDefault(validation_rules_, part_type) ==
    IF part_type \in DOMAIN validation_rules_
    THEN validation_rules_
    ELSE (part_type :> EmptyDict) @@ validation_rules_

\* self.validation_rules.pop(part_type, {}) in place of get
RulesAfterGet_Pop(validation_rules_, part_type) ==
    [k \in DOMAIN validation_rules_ \ {part_type} |-> validation_rules_[k]]

\* self.validation_rules.get(part_type, {}) leaves the table as it is
RulesAfterGet(validation_rules_, part_type) == validation_rules_

\* the call gets as far as _validate_by_type
ReachesByType(trimesh_, file, settings) ==
    /\ trimesh_
    /\ file.loads
    /\ ~IsEmptyMesh(file.mesh)
    /\ hasattr(file.mesh, "bounds")
    /\ file.mesh.bounds # <<>>
    /\ ~Truthy(settings)

RulesAfterCall(trimesh_, validation_rules_, file, settings) ==
    IF ReachesByType(trimesh_, file, settings)
    THEN RulesAfterGet(validation_rules_, _classify_part(Dimensions(file.mesh.bounds)))
    ELSE validation_rules_

-----------------------------------------------------------------------------
(* Inputs *)

AllAttrs == {"vertices", "faces", "bounds", "volume", "is_watertight"}

\* bounding-box extents on and beside the thresholds of the rules
Lengths == {0, 1900, 24500, 60000, 100000, 139900, 140000, 165000, 165500}
Widths == {0, 22000, 28500, 80000, 89900, 90000, 105000, 105500}
Heights == {0, 1500, 1710, 8000, 20000, 30500, 40500, 50500}
FaceCounts == {4, 10, 12, 100000, 100001}

\* the minimum corner of every bounding box of the model
Origin == <<-2000, 500, 0>>

Box(l, w, h) == <<Origin, <<Origin[1] + l, Origin[2] + w, Origin[3] + h>>>>

Mesh(attrs, nv, nf, bounds, volume, wt) ==
    [attrs |-> attrs, vertices |-> nv, faces |-> nf, bounds |-> bounds,
     volume |-> volume, is_watertight |-> wt]

\* one box per category: chassis, wheel, body, accessory
SampleBoxes ==
    {Box(150000, 95000, 35000), Box(24500, 24000, 8000),
     Box(60000, 40000, 10000), Box(40000, 40000, 25000)}

\* meshes as the loader builds them from a model file
WellFormedMeshes ==
    {Mesh(AllAttrs, 8, 12, Box(l, w, h), 1234567, wt) :
        l \in Lengths, w \in Widths, h \in Heights, wt \in BOOLEAN}
    \cup
    {Mesh(AllAttrs, 8, nf, b, 1234567, wt) :
        b \in SampleBoxes, nf \in FaceCounts, wt \in BOOLEAN}

\* objects the loader returns that lack attributes of a mesh (point clouds, paths)
MissingAttrs ==
    {{"vertices"}, {"bounds"}, {"faces"}, {"volume"}, {"is_watertight"},
     {"faces", "volume", "is_watertight"}}

MalformedMeshes ==
    {Mesh(AllAttrs \ miss, 8, 12, b, 1234567, wt) :
        miss \in MissingAttrs, b \in SampleBoxes, wt \in BOOLEAN}

\* meshes whose volume is zero or negative (open or inverted surfaces)
OddVolumeMeshes ==
    {Mesh(AllAttrs, 8, 12, b, v, FALSE) : b \in SampleBoxes, v \in {-5000, 0, 1234565}}

\* a mesh without vertices has no bounding box: bounds is None
NoVertices == Mesh(AllAttrs, 0, 0, <<>>, 0, FALSE)

Meshes == WellFormedMeshes \cup MalformedMeshes \cup OddVolumeMeshes \cup {NoVertices}

Unloadable == [loads |-> FALSE, mesh |-> NoVertices]

Files == {[loads |-> TRUE, mesh |-> m] : m \in Meshes} \cup {Unloadable}

\* without trimesh no file is ever opened: a few files stand for all of them
UnopenedFiles ==
    {[loads |-> TRUE, mesh |-> Mesh(AllAttrs, 8, 12, b, 1234567, wt)] :
        b \in SampleBoxes, wt \in BOOLEAN} \cup {[loads |-> TRUE, mesh |-> NoVertices], Unloadable}

NoSettings == [given |-> FALSE, dict |-> EmptyDict]

PlateSettings ==
    {[given |-> TRUE, dict |-> d] :
        d \in {EmptyDict,
               [thickness |-> 1500, screw_hole_diameter |-> 2050],
               [thickness |-> 3000]}}

Settings == {NoSettings} \cup PlateSettings

NoReport == EmptyDict

-----------------------------------------------------------------------------
(* The state machine *)

Threads == 1..NThreads

\* the frame of a thread that is not inside validate_part
IdleFrame ==
    [pc |-> "idle", file |-> Unloadable, settings |-> NoSettings, rules |-> InitRules,
     dimensions |-> <<>>, volume |-> 0, is_watertight |-> FALSE,
     validation_result |-> NoReport, result |-> NoReport]

Init ==
    /\ trimesh \in BOOLEAN
    /\ instance = 1
    /\ validation_rules = InitRules
    /\ file_path = Unloadable
    /\ tamiya_plate_settings = NoSettings
    /\ report = NoReport
    /\ previous = NoReport
    /\ ncalls = 0
    /\ threads = [t \in Threads |-> IdleFrame]
    /\ shared = TRUE

\* validator = Mini4WDValidator()
NewValidator ==
    /\ instance < MaxInstances
    /\ instance' = instance + 1
    /\ validation_rules' = InitRules
    /\ UNCHANGED <<trimesh, file_path, tamiya_plate_settings, report, previous, ncalls, conc>>

\* validator.validate_part(f, s): the first call of a request
ValidatePart ==
    \E f \in (IF trimesh THEN Files ELSE UnopenedFiles), s \in Settings :
        /\ ncalls = 0
        /\ file_path' = f
        /\ tamiya_plate_settings' = s
        /\ report' = validate_part(trimesh, validation_rules, f, s)
        /\ validation_rules' = RulesAfterCall(trimesh, validation_rules, f, s)
        /\ previous' = NoReport
        /\ ncalls' = 1
        /\ UNCHANGED <<trimesh, instance, conc>>

\* validator.validate_part(f, s) once more on the inputs of the last call
Revalidate ==
    /\ ncalls >= 1
    /\ ncalls < MaxCalls
    /\ report' = validate_part(trimesh, validation_rules, file_path, tamiya_plate_settings)
    /\ validation_rules' = RulesAfterCall(trimesh, validation_rules, file_path, tamiya_plate_settings)
    /\ previous' = report
    /\ ncalls' = ncalls + 1
    /\ UNCHANGED <<trimesh, instance, file_path, tamiya_plate_settings, conc>>

\* the caller is done with the report and turns to its next request
Finish ==
    /\ ncalls >= 1
    /\ file_path' = Unloadable
    /\ tamiya_plate_settings' = NoSettings
    /\ report' = NoReport
    /\ previous' = NoReport
    /\ ncalls' = 0
    /\ UNCHANGED <<trimesh, instance, validation_rules, conc>>

Next == NewValidator \/ ValidatePart \/ Revalidate \/ Finish

Spec == Init /\ [][Next]_vars

-----------------------------------------------------------------------------
(* Concurrent calls: server threads inside validate_part at the same time, *)
(* each advancing by one group of statements at a time                     *)

\* the files and settings of the concurrent requests
ConcFiles ==
    {[loads |-> TRUE, mesh |-> Mesh(AllAttrs, 8, 12, Box(165500, 95000, 35000), 1234567, TRUE)],
     [loads |-> TRUE, mesh |-> Mesh(AllAttrs, 8, 4, Box(24500, 24000, 1500), 1234567, FALSE)],
     [loads |-> TRUE, mesh |-> Mesh(AllAttrs \ {"is_watertight"}, 8, 12, Box(150000, 95000, 35000), 1234567, FALSE)],
     Unloadable}

ConcSettings == {NoSettings, [given |-> TRUE, dict |-> [thickness |-> 1500, screw_hole_diameter |-> 2050]]}

\* the frames of the other threads stay as they are
Frame(t, f) == threads' = [threads EXCEPT ![t] = f]

\* the except clause: the call returns the failure report
Failed(t, e) == Frame(t, [threads[t] EXCEPT !.pc = "done", !.result = ExceptionReport(e)])

InitConc ==
    /\ trimesh \in BOOLEAN
    /\ instance = 1
    /\ validation_rules = InitRules
    /\ file_path = Unloadable
    /\ tamiya_plate_settings = NoSettings
    /\ report = NoReport
    /\ previous = NoReport
    /\ ncalls = 0
    /\ threads = [t \in Threads |-> IdleFrame]
    /\ shared \in BOOLEAN

Sequential == <<instance, file_path, tamiya_plate_settings, report, previous, ncalls>>

\* a request arrives: validator.validate_part(f, s), on the shared validator
\* or on a Mini4WDValidator() of the thread's own
Call(t) ==
    \E f \in ConcFiles, s \in ConcSettings :
        /\ threads[t].pc = "idle"
        /\ Frame(t, [IdleFrame EXCEPT !.pc = "called", !.file = f, !.settings = s])
        /\ UNCHANGED <<trimesh, validation_rules, shared, Sequential>>

\* the trimesh test, load_mesh and the empty-mesh test
Load(t) ==
    LET fr == threads[t] IN
    /\ fr.pc = "called"
    /\ IF ~trimesh
       THEN Frame(t, [fr EXCEPT !.pc = "done", !.result = UnavailableReport])
       ELSE IF ~fr.file.loads
       THEN Failed(t, "Validation failed: could not load mesh")
       ELSE IF IsEmptyMesh(fr.file.mesh)
       THEN Frame(t, [fr EXCEPT !.pc = "done", !.result = EmptyReport])
       ELSE Frame(t, [fr EXCEPT !.pc = "loaded"])
    /\ UNCHANGED <<trimesh, validation_rules, shared, Sequential>>

\* bounds, dimensions, volume, is_watertight
Measure(t) ==
    LET fr == threads[t]
        mesh == fr.file.mesh
    IN
    /\ fr.pc = "loaded"
    /\ IF ~hasattr(mesh, "bounds")
       THEN Failed(t, NoAttribute("bounds"))
       ELSE IF mesh.bounds = <<>>
       THEN Failed(t, "Validation failed: 'NoneType' object is not subscriptable")
       ELSE Frame(t, [fr EXCEPT
                !.pc = "measured",
                !.dimensions = Dimensions(mesh.bounds),
                !.volume = IF hasattr(mesh, "volume") THEN mesh.volume ELSE 0,
                !.is_watertight = IF hasattr(mesh, "is_watertight")
                                  THEN mesh.is_watertight ELSE FALSE])
    /\ UNCHANGED <<trimesh, validation_rules, shared, Sequential>>

\* the plate rules, or classification and the category rules, which read
\* self.validation_rules
Rules(t) ==
    LET fr == threads[t]
        mesh == fr.file.mesh
        table == IF shared THEN validation_rules ELSE fr.rules
        part_type == _classify_part(fr.dimensions)
        validation_result ==
            IF Truthy(fr.settings)
            THEN _validate_tamiya_plate(mesh, fr.dimensions, fr.settings.dict)
            ELSE _validate_by_type(table, mesh, fr.dimensions, part_type)
        after == IF Truthy(fr.settings) THEN table ELSE RulesAfterGet(table, part_type)
        next == IF Raised(validation_result)
                THEN [fr EXCEPT !.pc = "done",
                                !.result = ExceptionReport(validation_result.raised)]
                ELSE [fr EXCEPT !.pc = "validated",
                                !.validation_result = validation_result]
    IN
    /\ fr.pc = "measured"
    /\ IF shared
       THEN /\ validation_rules' = after
            /\ Frame(t, next)
       ELSE /\ validation_rules' = validation_rules
            /\ Frame(t, [next EXCEPT !.rules = after])
    /\ UNCHANGED <<trimesh, shared, Sequential>>

\* the mesh-quality pass, the basic info and the plate fields; the report is returned
Quality(t) ==
    LET fr == threads[t]
        basic == [mesh_quality |-> _check_mesh_quality(fr.file.mesh),
                  dimensions |-> [length |-> Round2(fr.dimensions[1]),
                                  width |-> Round2(fr.dimensions[2]),
                                  height |-> Round2(fr.dimensions[3])],
                  volume |-> IF fr.volume > 0 THEN Round2(fr.volume) ELSE 0,
                  is_watertight |-> fr.is_watertight]
        plate == IF Truthy(fr.settings)
                 THEN [tamiya_plate_mode |-> TRUE, plate_settings |-> fr.settings.dict]
                 ELSE EmptyDict
    IN
    /\ fr.pc = "validated"
    /\ Frame(t, [fr EXCEPT !.pc = "done", !.result = plate @@ basic @@ fr.validation_result])
    /\ UNCHANGED <<trimesh, validation_rules, shared, Sequential>>

\* the caller has the report; the thread is free for its next request
Return(t) ==
    /\ threads[t].pc = "done"
    /\ Frame(t, [IdleFrame EXCEPT !.rules = threads[t].rules])
    /\ UNCHANGED <<trimesh, validation_rules, shared, Sequential>>

NextConc ==
    \E t \in Threads :
        Call(t) \/ Load(t) \/ Measure(t) \/ Rules(t) \/ Quality(t) \/ Return(t)

SpecConc == InitConc /\ [][NextConc]_vars

-----------------------------------------------------------------------------
(* Vocabulary of the properties *)

HasKey(d, k) == k \in DOMAIN d

MinimalKeys == {"valid", "errors", "warnings", "suggestions"}

\* a validate_part call has returned and its report is in hand
Called == ncalls >= 1

\* the call loaded a mesh that has vertices and a bounding box
Measured ==
    /\ Called
    /\ trimesh
    /\ file_path.loads
    /\ ~IsEmptyMesh(file_path.mesh)
    /\ hasattr(file_path.mesh, "bounds")
    /\ file_path.mesh.bounds # <<>>

\* the mesh of the call carries every attribute of a mesh
Complete == Measured /\ file_path.mesh.attrs = AllAttrs

Dims == Dimensions(file_path.mesh.bounds)

\* the report says the part was put in category c
Classified(c) == Called /\ HasKey(report, "part_type") /\ report.part_type = c

-----------------------------------------------------------------------------
(* C1: in every report validate_part returns, valid is false if any error  *)
(* was recorded in errors and true otherwise.                              *)
(* The category rules of _validate_by_type record errors and leave valid   *)
(* at True, so the statement fails on the code.                            *)

C1_ValidIffNoErrors ==
    Called => (report.valid <=> report.errors = <<>>)

-----------------------------------------------------------------------------
(* C2: every mesh classified as Chassis (no plate settings) with           *)
(* length > 165, width > 105 or height > 40 gets a report with             *)
(* valid = false.                                                          *)

C2_OversizeChassisInvalid ==
    (/\ Classified("chassis")
     /\ ~tamiya_plate_settings.given
     /\ \/ Dims[1] > mm(165)
        \/ Dims[2] > mm(105)
        \/ Dims[3] > mm(40))
    => report.valid = FALSE

-----------------------------------------------------------------------------
(* C3: for every non-empty mesh whose bounding dimensions have a component *)
(* <= 0, validate_part skips classification and returns an invalid report  *)
(* with a single error and no part_type.                                   *)

C3_DegenerateRejected ==
    (Measured /\ \E i \in 1..3 : Dims[i] <= 0)
    => /\ report.valid = FALSE
       /\ Len(report.errors) = 1
       /\ ~HasKey(report, "part_type")

-----------------------------------------------------------------------------
(* C4: without plate settings the category is the first match of the       *)
(* decision list (1) length > 100 and width > 80 -> chassis,               *)
(* (2) min(length, width) < 35 and max(length, width) < 35 -> wheel,       *)
(* (3) height < 20 and (length > 50 or width > 50) -> body,                *)
(* (4) height > 30 -> body, (5) otherwise accessory; it depends on nothing *)
(* but (length, width, height), is one of these four and never the plate.  *)

C4_RuleMatches(i, l, w, h) ==
    CASE i = 1 -> l > mm(100) /\ w > mm(80)
      [] i = 2 -> Min2(l, w) < mm(35) /\ Max2(l, w) < mm(35)
      [] i = 3 -> h < mm(20) /\ (l > mm(50) \/ w > mm(50))
      [] i = 4 -> h > mm(30)
      [] OTHER -> TRUE

C4_RuleCategory == <<"chassis", "wheel", "body", "body", "accessory">>

C4_FirstMatch(l, w, h) ==
    CHOOSE i \in 1..5 :
        /\ C4_RuleMatches(i, l, w, h)
        /\ \A j \in 1..(i - 1) : ~C4_RuleMatches(j, l, w, h)

C4_ClassificationIsDecisionList ==
    (Measured /\ ~tamiya_plate_settings.given)
    => LET cat == C4_RuleCategory[C4_FirstMatch(Dims[1], Dims[2], Dims[3])]
           \* the chassis and wheel rules read mesh.is_watertight and fail without it
           fails == cat \in {"chassis", "wheel"} /\ ~hasattr(file_path.mesh, "is_watertight")
       IN  /\ HasKey(report, "part_type") <=> ~fails
           /\ HasKey(report, "part_type") => report.part_type = cat

\* a chassis that the later height > 30 rule would have called a body
C4_Witness ==
    /\ Measured
    /\ ~tamiya_plate_settings.given
    /\ Classified("chassis")
    /\ Dims[3] > mm(30)

-----------------------------------------------------------------------------
(* C5: for every validation run with plate settings, valid = false if and  *)
(* only if the mesh is not watertight.                                     *)
(* Stated for complete meshes, whose watertightness is defined; it fails   *)
(* for the settings value {}, which validate_part treats as absent.        *)

C5_PlateValidIffWatertight ==
    (Complete /\ tamiya_plate_settings.given)
    => (report.valid = FALSE <=> ~file_path.mesh.is_watertight)

-----------------------------------------------------------------------------
(* C6: whenever a plate-settings value is supplied, also one that leaves   *)
(* thickness and screw_hole_diameter to their defaults, part_type is the   *)
(* plate category and the report carries tamiya_plate_mode and             *)
(* plate_settings; when none is supplied, part_type is never the plate     *)
(* category and the two fields are absent.                                 *)

C6_PlateSettingsShortCircuit ==
    Complete
    => IF tamiya_plate_settings.given
       THEN /\ Classified("tamiya_frp_carbon_plate")
            /\ HasKey(report, "tamiya_plate_mode")
            /\ HasKey(report, "plate_settings")
       ELSE /\ ~Classified("tamiya_frp_carbon_plate")
            /\ ~HasKey(report, "tamiya_plate_mode")
            /\ ~HasKey(report, "plate_settings")

-----------------------------------------------------------------------------
(* C7: for every mesh classified as Wheel, errors is non-empty if and only *)
(* if thickness = min(length, width, height) < 2.                          *)

C7_WheelErrorIffThin ==
    Classified("wheel")
    => (report.errors # <<>> <=> Min3(Dims[1], Dims[2], Dims[3]) < mm(2))

\* a wheel whose height alone is below 2mm
C7_Witness ==
    /\ Classified("wheel")
    /\ Dims[1] >= mm(2)
    /\ Dims[2] >= mm(2)
    /\ Dims[3] < mm(2)
    /\ report.errors # <<>>

-----------------------------------------------------------------------------
(* C8: validate_part never lets an exception escape: any failure while     *)
(* loading or inspecting the mesh (load/parse error, a mesh object missing *)
(* expected fields such as bounds or faces) becomes a returned report with *)
(* valid = false and a single error string, and every report carries the   *)
(* keys valid, errors, warnings and suggestions.                           *)

\* as claimed: a mesh object without faces counts as a failure
C8_FailureAsClaimed ==
    /\ trimesh
    /\ \/ ~file_path.loads
       \/ /\ ~IsEmptyMesh(file_path.mesh)
          /\ \/ ~hasattr(file_path.mesh, "bounds")
             \/ ~hasattr(file_path.mesh, "faces")

C8_FailureBecomesReport ==
    Called
    => /\ MinimalKeys \subseteq DOMAIN report
       /\ C8_FailureAsClaimed => (report.valid = FALSE /\ Len(report.errors) = 1)

\* what raises in the code: the load, mesh.bounds, and mesh.is_watertight
\* where the plate, chassis or wheel rules read it unguarded
C8_Raises ==
    /\ trimesh
    /\ \/ ~file_path.loads
       \/ /\ ~IsEmptyMesh(file_path.mesh)
          /\ \/ ~hasattr(file_path.mesh, "bounds")
             \/ /\ ~hasattr(file_path.mesh, "is_watertight")
                /\ \/ Truthy(tamiya_plate_settings)
                   \/ _classify_part(Dims) \in {"chassis", "wheel"}

(* C8 as amended: a load error, a mesh without bounds, or one without      *)
(* is_watertight where the plate, chassis or wheel rules read it, becomes  *)
(* a report of exactly the four keys with valid = false and one error; a   *)
(* mesh that lacks only faces is no failure and is reported with           *)
(* face_count 0; every report carries the four keys.                       *)
C8_RaiseBecomesReport ==
    Called
    => /\ MinimalKeys \subseteq DOMAIN report
       /\ C8_Raises => /\ report.valid = FALSE
                       /\ Len(report.errors) = 1
                       /\ DOMAIN report = MinimalKeys
       /\ (Measured /\ file_path.mesh.attrs = AllAttrs \ {"faces"})
          => /\ HasKey(report, "mesh_quality")
             /\ report.mesh_quality.face_count = 0
             /\ HasKey(report, "part_type")

\* a mesh object without bounds came back as a failure report
C8_Witness ==
    /\ Called
    /\ trimesh
    /\ file_path.loads
    /\ ~IsEmptyMesh(file_path.mesh)
    /\ ~hasattr(file_path.mesh, "bounds")
    /\ report.valid = FALSE
    /\ Len(report.errors) = 1

-----------------------------------------------------------------------------
(* C9: when the mesh has zero vertices, or no mesh-processing library is   *)
(* available, validate_part returns a minimal report: valid = false,       *)
(* exactly one error, empty warnings and suggestions, and no part_type,    *)
(* dimensions, volume or mesh_quality.                                     *)

C9_MinimalReportWhenEmptyOrNoLibrary ==
    (/\ Called
     /\ \/ ~trimesh
        \/ file_path.loads /\ file_path.mesh.vertices = 0)
    => /\ report.valid = FALSE
       /\ Len(report.errors) = 1
       /\ report.warnings = <<>>
       /\ report.suggestions = <<>>
       /\ DOMAIN report = MinimalKeys

\* a loaded mesh with zero vertices was reported
C9_Witness ==
    /\ Called
    /\ trimesh
    /\ file_path.loads
    /\ hasattr(file_path.mesh, "vertices")
    /\ file_path.mesh.vertices = 0
    /\ report.errors = <<Msg("Invalid or empty 3D model", <<>>)>>

-----------------------------------------------------------------------------
(* C10: a second validate_part call on the same mesh and plate settings,   *)
(* on the same validator or a fresh one, returns the report of the first,  *)
(* field for field and in the same order, and no call leaves anything      *)
(* behind in the validator: its rule table stays as __init__ built it.     *)

C10_RepeatGivesSameReport ==
    /\ ncalls >= 2 => report = previous
    /\ validation_rules = InitRules

\* a second call that reported errors, warnings and mesh-quality issues
C10_Witness ==
    /\ ncalls >= 2
    /\ HasKey(report, "mesh_quality")
    /\ report.errors # <<>>
    /\ report.warnings # <<>>
    /\ report.mesh_quality.issues # <<>>
    /\ report = previous

-----------------------------------------------------------------------------
(* C11: for every watertight mesh classified as Chassis with               *)
(* 140 <= length <= 165, 90 <= width <= 105 and height <= 40, the report   *)
(* has valid = true, no errors, no warnings, and suggestions that include  *)
(* the axle-hole placement text.                                           *)

\* some message of the list has this text
HasText(msgs, text) == \E i \in DOMAIN msgs : msgs[i].text = text

C11_ChassisInRangeIsClean ==
    (/\ Classified("chassis")
     /\ file_path.mesh.is_watertight
     /\ Dims[1] >= mm(140) /\ Dims[1] <= mm(165)
     /\ Dims[2] >= mm(90) /\ Dims[2] <= mm(105)
     /\ Dims[3] <= mm(40))
    => /\ report.valid = TRUE
       /\ report.errors = <<>>
       /\ report.warnings = <<>>
       /\ HasText(report.suggestions, "Ensure axle holes are properly positioned")

\* a watertight chassis on the lower edge of the range, 140 x 90 mm
C11_Witness ==
    /\ Classified("chassis")
    /\ file_path.mesh.is_watertight
    /\ Dims[1] = mm(140)
    /\ Dims[2] = mm(90)
    /\ Dims[3] <= mm(40)
    /\ report.warnings = <<>>
    /\ report.valid = TRUE

-----------------------------------------------------------------------------
(* C13: for every report that reaches the category rules (every category,  *)
(* Plate and Accessory included) the mesh-quality pass is run, and         *)
(* mesh_quality.issues holds the high-polygon-count issue iff              *)
(* face_count > 100000, the low-polygon-count issue iff face_count < 10    *)
(* (never both), the non-watertight issue iff is_watertight is false, and  *)
(* nothing else; the pass never changes valid, errors or warnings.         *)

C13_High == "Very high polygon count - consider simplifying mesh"
C13_Low == "Very low polygon count - mesh might be too simple"
C13_Holes == "Mesh has holes or non-manifold geometry"

\* what the category rules alone returned for the inputs of the call
C13_RulesResult ==
    IF Truthy(tamiya_plate_settings)
    THEN _validate_tamiya_plate(file_path.mesh, Dims, tamiya_plate_settings.dict)
    ELSE _validate_by_type(validation_rules, file_path.mesh, Dims, _classify_part(Dims))

C13_QualityIssues ==
    (Called /\ HasKey(report, "part_type"))
    => /\ HasKey(report, "mesh_quality")
       /\ LET mesh == file_path.mesh
              \* a mesh object without faces counts 0 faces, one without
              \* is_watertight counts as not watertight
              faces == IF hasattr(mesh, "faces") THEN mesh.faces ELSE 0
              tight == IF hasattr(mesh, "is_watertight") THEN mesh.is_watertight ELSE FALSE
              issues == report.mesh_quality.issues
              texts == {issues[i].text : i \in DOMAIN issues}
          IN  /\ report.mesh_quality.face_count = faces
              /\ report.mesh_quality.is_watertight = tight
              /\ C13_High \in texts <=> faces > 100000
              /\ C13_Low \in texts <=> faces < 10
              /\ ~(C13_High \in texts /\ C13_Low \in texts)
              /\ C13_Holes \in texts <=> ~tight
              /\ texts \subseteq {C13_High, C13_Low, C13_Holes}
              /\ Cardinality(texts) = Len(issues)
              /\ report.valid = C13_RulesResult.valid
              /\ report.errors = C13_RulesResult.errors
              /\ report.warnings = C13_RulesResult.warnings

\* a plate report on a leaking mesh of 4 faces: both issues, valid left at false
C13_Witness ==
    /\ Classified("tamiya_frp_carbon_plate")
    /\ file_path.mesh.faces = 4
    /\ Len(report.mesh_quality.issues) = 2
    /\ HasText(report.mesh_quality.issues, C13_Low)
    /\ HasText(report.mesh_quality.issues, C13_Holes)
    /\ report.valid = FALSE

-----------------------------------------------------------------------------
(* C14: for every mesh classified as Body, errors is empty and valid is    *)
(* true whatever the dimensions and watertightness; exceeding              *)
(* (165, 105, 50) mm adds one warning per exceeded axis and nothing to     *)
(* errors, and the two Body suggestions are always emitted.                *)

C14_TooLong == "Body length {:.1f}mm might be too long"
C14_TooWide == "Body width {:.1f}mm might be too wide"
C14_TooTall == "Body height {:.1f}mm might be too tall"

C14_Exceeded == {i \in 1..3 : Dims[i] > <<mm(165), mm(105), mm(50)>>[i]}

C14_BodyOnlyWarns ==
    Classified("body")
    => /\ report.valid = TRUE
       /\ report.errors = <<>>
       /\ Len(report.warnings) = Cardinality(C14_Exceeded)
       /\ HasText(report.warnings, C14_TooLong) <=> 1 \in C14_Exceeded
       /\ HasText(report.warnings, C14_TooWide) <=> 2 \in C14_Exceeded
       /\ HasText(report.warnings, C14_TooTall) <=> 3 \in C14_Exceeded
       /\ report.suggestions =
              <<Msg("Ensure minimum 0.8mm wall thickness for 3D printing", <<>>),
                Msg("Add mounting holes for chassis attachment", <<>>)>>

\* a leaking body too long and too tall: two warnings, still valid
C14_Witness ==
    /\ Classified("body")
    /\ ~file_path.mesh.is_watertight
    /\ C14_Exceeded = {1, 3}
    /\ Len(report.warnings) = 2
    /\ report.valid = TRUE

-----------------------------------------------------------------------------
(* C15: for every mesh classified as Wheel, the 'not standard Mini 4WD     *)
(* size' warning is absent iff diameter = max(length, width) is within the *)
(* 2mm absolute tolerance of 24 or of 30; independently the 'appears       *)
(* solid' warning is present iff the mesh is watertight, so a watertight   *)
(* (24.5, 24.0, 8.0) wheel has no size warning but has the solid warning.  *)

C15_NotStandard == "Wheel diameter {:.1f}mm is not standard Mini 4WD size"
C15_Solid == "Wheel appears solid - ensure axle hole is present"

C15_WheelWarnings ==
    Classified("wheel")
    => LET diameter == Max2(Dims[1], Dims[2])
       IN  /\ ~HasText(report.warnings, C15_NotStandard)
                <=> (Abs(diameter - mm(24)) < mm(2) \/ Abs(diameter - mm(30)) < mm(2))
           /\ HasText(report.warnings, C15_Solid) <=> file_path.mesh.is_watertight
           /\ (Dims = <<24500, 24000, 8000>> /\ file_path.mesh.is_watertight)
                => report.warnings = <<Msg(C15_Solid, <<>>)>>

\* the watertight (24.5, 24.0, 8.0) wheel
C15_Witness ==
    /\ Classified("wheel")
    /\ Dims = <<24500, 24000, 8000>>
    /\ file_path.mesh.is_watertight
    /\ ~HasText(report.warnings, C15_NotStandard)
    /\ HasText(report.warnings, C15_Solid)

\* a wheel whose diameter is exactly 2mm off 24: the size warning is there
C15_EdgeWitness ==
    /\ Classified("wheel")
    /\ Max2(Dims[1], Dims[2]) = mm(22)
    /\ HasText(report.warnings, C15_NotStandard)

-----------------------------------------------------------------------------
(* C12: concurrent validate_part calls need no coordination: in any        *)
(* interleaving of two or more calls, on one validator or on one each,     *)
(* every call returns exactly the report it would return when run alone,   *)
(* and no call changes the validator's rule table or any state another     *)
(* call sees.                                                              *)

C12_ConcurrentCallsIndependent ==
    /\ validation_rules = InitRules
    /\ \A t \in Threads :
        /\ threads[t].rules = InitRules
        /\ threads[t].pc = "done"
           => threads[t].result =
                  validate_part(trimesh, InitRules, threads[t].file, threads[t].settings)

\* two calls on the shared validator, on different files: one has returned a
\* chassis report with an error while the other is between its steps
C12_Witness ==
    /\ shared
    /\ \E t, u \in Threads :
        /\ t # u
        /\ threads[t].file # threads[u].file
        /\ threads[t].pc = "done"
        /\ HasKey(threads[t].result, "part_type")
        /\ threads[t].result.part_type = "chassis"
        /\ threads[t].result.errors # <<>>
        /\ threads[u].pc = "validated"

=============================================================================
